---- MODULE Spec2Model ----
(***************************************************************************)
(* ParamDoWat: the extraction-and-aggregation engine of the Burp parameter *)
(* tracker (src/Full_Files/app.py, src/ParaDoWat.py, the parser of         *)
(* src/burp-tracker-streamlit.py and src/extract-dynamic-urls.py).         *)
(*                                                                         *)
(* Python strings are sequences of one-character strings, so that split,   *)
(* strip, lower, substring search and code-point comparison are computed.  *)
(* A Python dict is a sequence of <<key, value>> pairs in insertion order. *)
(* Optional values (None) are sequences of length 0 or 1.                  *)
(***************************************************************************)
EXTENDS Integers, Sequences, FiniteSets, TLC

VARIABLES app_data, loads, response, threads, program, in_urls, in_doc, in_text, out

vars ==
  <<app_data, loads, response, threads, program, in_urls, in_doc, in_text, out>>

(* ------------------------------ strings ------------------------------- *)

\* The characters of the model's alphabet, in code-point order.
CharTable ==
  << " ", "&", "(", ")", "-", ".", "/", "0", "1", "2", "3", "4", "5",
     "6", "7", "8", "9", ":", "=", "?", "A", "B", "C", "D", "E", "F",
     "G", "H", "I", "J", "K", "L", "M", "N", "O", "P", "Q", "R", "S",
     "T", "U", "V", "W", "X", "Y", "Z", "_", "a", "b", "c", "d", "e",
     "f", "g", "h", "i", "j", "k", "l", "m", "n", "o", "p", "q", "r",
     "s", "t", "u", "v", "w", "x", "y", "z" >>

UpperChars ==
  << "A", "B", "C", "D", "E", "F", "G", "H", "I", "J", "K", "L", "M",
     "N", "O", "P", "Q", "R", "S", "T", "U", "V", "W", "X", "Y", "Z" >>

LowerChars ==
  << "a", "b", "c", "d", "e", "f", "g", "h", "i", "j", "k", "l", "m",
     "n", "o", "p", "q", "r", "s", "t", "u", "v", "w", "x", "y", "z" >>

WhiteSpace == {" "}

Ord(c) == CHOOSE i \in 1..Len(CharTable) : CharTable[i] = c

\* str.lower() on one character
LowerChar(c) ==
  IF \E i \in 1..Len(UpperChars) : UpperChars[i] = c
  THEN LowerChars[CHOOSE i \in 1..Len(UpperChars) : UpperChars[i] = c]
  ELSE c

\* str.lower()
Lower(s) == [i \in 1..Len(s) |-> LowerChar(s[i])]

\* Python's str < str: by code point, a proper prefix is smaller
RECURSIVE StrLess(_, _)
StrLess(a, b) ==
  IF b = <<>> THEN FALSE
  ELSE IF a = <<>> THEN TRUE
  ELSE IF a[1] = b[1] THEN StrLess(Tail(a), Tail(b))
  ELSE Ord(a[1]) < Ord(b[1])

\* pattern in name
IsSubstring(p, s) ==
  \E i \in 1..(Len(s) - Len(p) + 1) : SubSeq(s, i, i + Len(p) - 1) = p

StartsWith(s, p) == Len(s) >= Len(p) /\ SubSeq(s, 1, Len(p)) = p

\* str.strip()
RECURSIVE LStrip(_)
LStrip(s) ==
  IF s # <<>> /\ s[1] \in WhiteSpace THEN LStrip(Tail(s)) ELSE s

RECURSIVE RStrip(_)
RStrip(s) ==
  IF s # <<>> /\ s[Len(s)] \in WhiteSpace
  THEN RStrip(SubSeq(s, 1, Len(s) - 1)) ELSE s

Strip(s) == RStrip(LStrip(s))

(* ------------------------------- dicts -------------------------------- *)

DictKeys(d) == [i \in 1..Len(d) |-> d[i][1]]

DictHas(d, k) == \E i \in 1..Len(d) : d[i][1] = k

DictGet(d, k) == d[CHOOSE i \in 1..Len(d) : d[i][1] = k][2]

\* d[k] = v: an existing key keeps its place, a new key goes last
DictPut(d, k, v) ==
  IF DictHas(d, k)
  THEN [i \in 1..Len(d) |-> IF d[i][1] = k THEN <<k, v>> ELSE d[i]]
  ELSE Append(d, <<k, v>>)

SeqToSet(s) == {s[i] : i \in 1..Len(s)}

\* every list an iteration over a set of strings may produce
Perms(S) ==
  {p \in [1..Cardinality(S) -> S] : \A x \in S : \E i \in DOMAIN p : p[i] = x}

None == <<>>

Some(x) == <<x>>

(* --------------------------- Tag Classifier --------------------------- *)

AUTO_TAG_PATTERNS ==
  <<
     [tag |-> "File Upload", patterns |-> <<
        <<"f","i","l","e">>,
        <<"u","p","l","o","a","d">>,
        <<"d","o","c","u","m","e","n","t">>,
        <<"d","o","c">>,
        <<"a","t","t","a","c","h","m","e","n","t">>,
        <<"i","m","a","g","e">>,
        <<"p","h","o","t","o">>,
        <<"p","d","f">> >>],
     [tag |-> "IDOR", patterns |-> <<
        <<"i","d">>,
        <<"u","s","e","r">>,
        <<"a","c","c","o","u","n","t">>,
        <<"p","r","o","f","i","l","e">>,
        <<"u","i","d">>,
        <<"u","s","e","r","i","d">>,
        <<"a","c","c","o","u","n","t","i","d">> >>],
     [tag |-> "XSS", patterns |-> <<
        <<"s","e","a","r","c","h">>,
        <<"q","u","e","r","y">>,
        <<"q">>,
        <<"k","e","y","w","o","r","d">>,
        <<"m","e","s","s","a","g","e">>,
        <<"c","o","m","m","e","n","t">>,
        <<"t","e","x","t">>,
        <<"c","o","n","t","e","n","t">> >>],
     [tag |-> "SQLi", patterns |-> <<
        <<"i","d">>,
        <<"s","o","r","t">>,
        <<"o","r","d","e","r">>,
        <<"f","i","l","t","e","r">>,
        <<"c","a","t","e","g","o","r","y">>,
        <<"t","y","p","e">> >>],
     [tag |-> "Auth", patterns |-> <<
        <<"t","o","k","e","n">>,
        <<"s","e","s","s","i","o","n">>,
        <<"a","u","t","h">>,
        <<"k","e","y">>,
        <<"a","p","i">>,
        <<"s","e","c","r","e","t">>,
        <<"p","a","s","s","w","o","r","d">>,
        <<"l","o","g","i","n">> >>],
     [tag |-> "Redirect", patterns |-> <<
        <<"r","e","d","i","r","e","c","t">>,
        <<"u","r","l">>,
        <<"r","e","t","u","r","n">>,
        <<"n","e","x","t">>,
        <<"c","a","l","l","b","a","c","k">>,
        <<"c","o","n","t","i","n","u","e">>,
        <<"r","e","t","u","r","n","u","r","l">> >>],
     [tag |-> "Path Traversal", patterns |-> <<
        <<"p","a","t","h">>,
        <<"d","i","r">>,
        <<"f","o","l","d","e","r">>,
        <<"d","i","r","e","c","t","o","r","y">>,
        <<"f","i","l","e">>,
        <<"f","i","l","e","n","a","m","e">> >>],
     [tag |-> "Admin", patterns |-> <<
        <<"a","d","m","i","n">>,
        <<"r","o","l","e">>,
        <<"p","r","i","v","i","l","e","g","e">>,
        <<"p","e","r","m","i","s","s","i","o","n">>,
        <<"a","c","c","e","s","s">>,
        <<"l","e","v","e","l">> >>],
     [tag |-> "Debug", patterns |-> <<
        <<"d","e","b","u","g">>,
        <<"t","e","s","t">>,
        <<"d","e","v">>,
        <<"t","r","a","c","e">>,
        <<"v","e","r","b","o","s","e">>,
        <<"l","o","g">> >>]
  >>

TagMatches(row, lower_name) ==
  \E i \in 1..Len(row.patterns) : IsSubstring(row.patterns[i], lower_name)

RECURSIVE TagsFrom(_, _)
TagsFrom(i, lower_name) ==
  IF i > Len(AUTO_TAG_PATTERNS) THEN <<>>
  ELSE IF TagMatches(AUTO_TAG_PATTERNS[i], lower_name)
       THEN <<AUTO_TAG_PATTERNS[i].tag>> \o TagsFrom(i + 1, lower_name)
       ELSE TagsFrom(i + 1, lower_name)

\* the loop on the name as written, not lower-cased
classify_as_written(param_name) == TagsFrom(1, param_name)

\* the loop of get_auto_tags
classify(param_name) == TagsFrom(1, Lower(param_name))

\* the names the model's inputs use as parameter keys
KnownNames ==
  { <<"i","d">>, <<"a">>, <<"b">>, <<"z","z">>, <<"q">>,
    <<"k","1">>, <<"k","2">>, <<"k","3">>, <<"k","4">>, <<"k","5">>,
    <<"k","6">>, <<"k","7">>, <<"k","8">>, <<"k","9">>, <<"k","a">>,
    <<"k","b">> }

\* classify on the known names, computed once
TagTable == [n \in KnownNames |-> classify(n)]

get_auto_tags(param_name) ==
  IF param_name \in KnownNames THEN TagTable[param_name]
  ELSE classify(param_name)

(* ------------------------------ sorting ------------------------------- *)

\* Python's tuple order on (n1, ..., nk, name): the first differing
\* component decides; name is compared as a string.
RECURSIVE NumsLess(_, _)
NumsLess(a, b) ==
  IF a = <<>> \/ b = <<>> THEN FALSE
  ELSE IF a[1] = b[1] THEN NumsLess(Tail(a), Tail(b))
  ELSE a[1] < b[1]

KeyLess(k1, k2) ==
  \/ NumsLess(k1.nums, k2.nums)
  \/ k1.nums = k2.nums /\ StrLess(k1.name, k2.name)

\* x goes before the first element whose key is greater: equal keys keep
\* their input order (sorted() is stable)
RECURSIVE InsertByKey(_, _)
InsertByKey(sorted_pairs, x) ==
  IF sorted_pairs = <<>> THEN <<x>>
  ELSE IF KeyLess(x.key, sorted_pairs[1].key) THEN <<x>> \o sorted_pairs
  ELSE <<sorted_pairs[1]>> \o InsertByKey(Tail(sorted_pairs), x)

RECURSIVE SortPairs(_, _)
SortPairs(pairs, n) ==
  IF n = 0 THEN <<>> ELSE InsertByKey(SortPairs(pairs, n - 1), pairs[n])

\* no sort: the items in the order given
sorted_as_given(pairs) == [i \in 1..Len(pairs) |-> pairs[i].item]

\* sorted(items, key=...) where pairs[i] = [key |-> key(item), item |-> item]
sorted(pairs) ==
  LET s == SortPairs(pairs, Len(pairs)) IN [i \in 1..Len(s) |-> s[i].item]

(* ----------------------------- Aggregator ----------------------------- *)

EMPTY_SENTINEL == <<"(","e","m","p","t","y",")">>

\* every (url, parameter) instance, in the order the two loops visit them
RECURSIVE Instances(_)
Instances(urls) ==
  IF urls = <<>> THEN <<>>
  ELSE [i \in 1..Len(urls[1].parameters) |->
          [url |-> urls[1].url, param |-> urls[1].parameters[i]]]
       \o Instances(Tail(urls))

\* all_params that misses the keys only seen with a blank value
all_params_nonblank(urls) ==
  LET inst == Instances(urls)
  IN {inst[i].param.key : i \in {j \in 1..Len(inst) : inst[j].param.value # <<>>}}

\* all_params: the set the loop collects the keys in
all_params(urls) ==
  LET inst == Instances(urls) IN {inst[i].param.key : i \in 1..Len(inst)}

\* value = param['value'] if param['value'] else '(empty)'
value_key(v) == IF v # <<>> THEN v ELSE EMPTY_SENTINEL

\* values[value].append(url), creating the list at first sight
append_url(values, value, url) ==
  LET v0 == IF DictHas(values, value) THEN values
            ELSE DictPut(values, value, <<>>)
  IN DictPut(v0, value, Append(DictGet(v0, value), url))

\* add_param that counts a key once per distinct value
add_param_per_value(param_data, url, param) ==
  LET key == param.key
      d0 == IF DictHas(param_data, key) THEN param_data
            ELSE DictPut(param_data, key,
                   [values |-> <<>>, total_occurrences |-> 0,
                    auto_tags |-> get_auto_tags(key)])
      e == DictGet(d0, key)
  IN DictPut(d0, key,
       [e EXCEPT !.values = append_url(e.values, value_key(param.value), url),
                 !.total_occurrences =
                    IF DictHas(e.values, value_key(param.value))
                    THEN e.total_occurrences ELSE e.total_occurrences + 1])

\* one pass of the inner loop body of process_urls (simple variant)
add_param(param_data, url, param) ==
  LET key == param.key
      d0 == IF DictHas(param_data, key) THEN param_data
            ELSE DictPut(param_data, key,
                   [values |-> <<>>, total_occurrences |-> 0,
                    auto_tags |-> get_auto_tags(key)])
      e == DictGet(d0, key)
  IN DictPut(d0, key,
       [e EXCEPT !.values = append_url(e.values, value_key(param.value), url),
                 !.total_occurrences = e.total_occurrences + 1])

RECURSIVE build_param_data(_, _)
build_param_data(inst, n) ==
  IF n = 0 THEN <<>>
  ELSE add_param(build_param_data(inst, n - 1), inst[n].url, inst[n].param)

\* a sort key without the name as tie-break
simple_sort_key_count_only(param_data, p) ==
  [nums |-> <<0 - DictGet(param_data, p).total_occurrences>>, name |-> <<>>]

\* key=lambda p: (-param_data[p]['total_occurrences'], p)
simple_sort_key(param_data, p) ==
  [nums |-> <<0 - DictGet(param_data, p).total_occurrences>>, name |-> p]

\* process_urls of src/Full_Files/app.py.  set_order is list(all_params):
\* the order in which the set of keys happens to be iterated.
process_urls(urls, set_order) ==
  LET inst == Instances(urls)
      param_data == build_param_data(inst, Len(inst))
  IN [params |-> param_data,
      all_param_names |->
        sorted([i \in 1..Len(set_order) |->
                  [key |-> simple_sort_key(param_data, set_order[i]),
                   item |-> set_order[i]]]),
      total_urls |-> Len(urls),
      total_params |-> Cardinality(all_params(urls))]

\* one pass of the inner loop body of process_urls (priority variant)
add_param_priority(param_data, url, param) ==
  LET key == param.key
      d0 == IF DictHas(param_data, key) THEN param_data
            ELSE DictPut(param_data, key,
                   [values |-> <<>>, total_occurrences |-> 0,
                    auto_tags |-> get_auto_tags(key),
                    has_empty_values |-> FALSE])
      e == DictGet(d0, key)
  IN DictPut(d0, key,
       [e EXCEPT !.values = append_url(e.values, value_key(param.value), url),
                 !.has_empty_values = IF param.value = <<>> THEN TRUE ELSE @,
                 !.total_occurrences = e.total_occurrences + 1])

RECURSIVE build_param_data_priority(_, _)
build_param_data_priority(inst, n) ==
  IF n = 0 THEN <<>>
  ELSE add_param_priority(build_param_data_priority(inst, n - 1),
                          inst[n].url, inst[n].param)

\* sort_key of the first process_urls of src/ParaDoWat.py
sort_key(param_data, param_name) ==
  LET data == DictGet(param_data, param_name)
      num_tags == Len(data.auto_tags)
      occurrences == data.total_occurrences
      has_values == ~data.has_empty_values \/ Len(data.values) > 1
  IN [nums |-> <<0 - occurrences, 0 - num_tags, IF has_values THEN 0 ELSE 1>>,
      name |-> param_name]

\* the first process_urls of src/ParaDoWat.py
process_urls_priority(urls, set_order) ==
  LET inst == Instances(urls)
      param_data == build_param_data_priority(inst, Len(inst))
  IN [params |-> param_data,
      all_param_names |->
        sorted([i \in 1..Len(set_order) |->
                  [key |-> sort_key(param_data, set_order[i]),
                   item |-> set_order[i]]]),
      total_urls |-> Len(urls),
      total_params |-> Cardinality(all_params(urls))]

(* ------------------------- Relationship Engine ------------------------ *)

\* the slice [:10] of get_co_occurrence
TOP_N == 10

\* param_keys = [p['key'] for p in url_obj['parameters']]
param_keys(url_obj) ==
  [i \in 1..Len(url_obj.parameters) |-> url_obj.parameters[i].key]

\* co_occurrence[key] += 1 on a defaultdict(int)
increment(co, key) ==
  IF DictHas(co, key) THEN DictPut(co, key, DictGet(co, key) + 1)
  ELSE DictPut(co, key, 1)

\* for key in param_keys: if key != target_param: co_occurrence[key] += 1
RECURSIVE count_partners(_, _, _, _)
count_partners(co, keys, n, target_param) ==
  IF n = 0 THEN co
  ELSE LET c == count_partners(co, keys, n - 1, target_param)
       IN IF keys[n] # target_param THEN increment(c, keys[n]) ELSE c

RECURSIVE co_occurrence(_, _, _)
co_occurrence(urls, n, target_param) ==
  IF n = 0 THEN <<>>
  ELSE LET co == co_occurrence(urls, n - 1, target_param)
           keys == param_keys(urls[n])
       IN IF target_param \in SeqToSet(keys)
          THEN count_partners(co, keys, Len(keys), target_param)
          ELSE co

\* sorted(co_occurrence.items(), key=lambda x: x[1], reverse=True)
sorted_by_count(co) ==
  sorted([i \in 1..Len(co) |->
            [key |-> [nums |-> <<0 - co[i][2]>>, name |-> <<>>],
             item |-> co[i]]])

\* no slice
top_slice_all(s) == s

\* [:10]
top_slice(s) == SubSeq(s, 1, IF Len(s) < TOP_N THEN Len(s) ELSE TOP_N)

get_co_occurrence(urls, target_param) ==
  LET top == top_slice(sorted_by_count(co_occurrence(urls, Len(urls), target_param)))
  IN [i \in 1..Len(top) |->
        [param |-> top[i][1], count |-> top[i][2],
         auto_tags |-> get_auto_tags(top[i][1])]]

(* --------------------------- Document Parser -------------------------- *)

\* A parsed document is BeautifulSoup's tree: a node is a string
\* (name "#text") or a tag with its children in document order.
Text(s) == [name |-> "#text", text |-> s, kids |-> <<>>]

Tag(n, kids) == [name |-> n, text |-> <<>>, kids |-> kids]

\* every descendant of a list of sibling nodes, in document order
RECURSIVE Descendants(_)
Descendants(nodes) ==
  IF nodes = <<>> THEN <<>>
  ELSE <<nodes[1]>> \o Descendants(nodes[1].kids) \o Descendants(Tail(nodes))

\* ''.join(s.strip() for s in strings if s.strip())
RECURSIVE JoinStripped(_)
JoinStripped(nodes) ==
  IF nodes = <<>> THEN <<>>
  ELSE (IF nodes[1].name = "#text" THEN Strip(nodes[1].text) ELSE <<>>)
       \o JoinStripped(Tail(nodes))

\* tag.get_text(strip=True)
get_text_strip(node) == JoinStripped(Descendants(node.kids))

\* tag.find_all(name): the descendants with that tag name
find_all(node, n) ==
  SelectSeq(Descendants(node.kids), LAMBDA d : d.name = n)

\* find(name) below a list of sibling nodes: the first in document order
find(nodes, n) ==
  LET hits == SelectSeq(Descendants(nodes), LAMBDA d : d.name = n)
  IN IF hits = <<>> THEN None ELSE Some(hits[1])

\* tag.string: the only child if it is a string, else the only child's .string
RECURSIVE string_of(_)
string_of(node) ==
  IF Len(node.kids) # 1 THEN None
  ELSE IF node.kids[1].name = "#text" THEN Some(node.kids[1].text)
  ELSE string_of(node.kids[1])

DYNAMIC_URLS == <<"D","y","n","a","m","i","c"," ","U","R","L","s">>

\* soup.find('h2', string='Dynamic URLs').find_next_sibling('ul'), as the
\* place of the heading: its sibling list and its index in it
RECURSIVE find_dynamic_header(_, _)
find_dynamic_header(sibs, i) ==
  IF i > Len(sibs) THEN None
  ELSE IF sibs[i].name = "h2" /\ string_of(sibs[i]) = Some(DYNAMIC_URLS)
       THEN Some([sibs |-> sibs, idx |-> i])
  ELSE LET below == find_dynamic_header(sibs[i].kids, 1)
       IN IF below # None THEN below ELSE find_dynamic_header(sibs, i + 1)

\* header.find_next_sibling(name)
find_next_sibling(place, n) ==
  LET later == SubSeq(place.sibs, place.idx + 1, Len(place.sibs))
      hits == SelectSeq(later, LAMBDA d : d.name = n)
  IN IF hits = <<>> THEN None ELSE Some(hits[1])

\* lines 33-42 of src/Full_Files/app.py: the working list
main_ul(soup) ==
  LET dynamic_header == find_dynamic_header(soup, 1)
  IN IF dynamic_header = None
     THEN LET body == find(soup, "body")
          IN IF body = None THEN None ELSE find(body[1].kids, "ul")
     ELSE find_next_sibling(dynamic_header[1], "ul")

IndexOf(s, c) == CHOOSE i \in 1..Len(s) : s[i] = c /\ \A j \in 1..(i - 1) : s[j] # c

\* a split at the last '=' of the line
parse_param_at_last(param_text) ==
  IF \E i \in 1..Len(param_text) : param_text[i] = "="
  THEN LET i == CHOOSE i \in 1..Len(param_text) :
                  /\ param_text[i] = "="
                  /\ \A j \in (i + 1)..Len(param_text) : param_text[j] # "="
       IN [key |-> Strip(SubSeq(param_text, 1, i - 1)),
           value |-> Strip(SubSeq(param_text, i + 1, Len(param_text)))]
  ELSE [key |-> Strip(param_text), value |-> <<>>]

\* one parameter line: split at the first '=', both sides stripped
parse_param(param_text) ==
  IF \E i \in 1..Len(param_text) : param_text[i] = "="
  THEN LET i == IndexOf(param_text, "=")
       IN [key |-> Strip(SubSeq(param_text, 1, i - 1)),
           value |-> Strip(SubSeq(param_text, i + 1, Len(param_text)))]
  ELSE [key |-> Strip(param_text), value |-> <<>>]

\* the loop over child.find_all('li'): the non-blank lines become parameters
RECURSIVE param_lines(_, _)
param_lines(lis, n) ==
  IF n = 0 THEN <<>>
  ELSE LET param_text == get_text_strip(lis[n])
       IN IF param_text # <<>>
          THEN Append(param_lines(lis, n - 1), parse_param(param_text))
          ELSE param_lines(lis, n - 1)

HTTP == <<"h","t","t","p">>

\* the loop over main_ul.children: current_url is the last record of urls
RECURSIVE scan_children(_, _)
scan_children(children, n) ==
  IF n = 0 THEN <<>>
  ELSE LET urls == scan_children(children, n - 1)
           child == children[n]
       IN IF child.name = "li"
          THEN LET url_text == get_text_strip(child)
               IN IF StartsWith(url_text, HTTP)
                  THEN Append(urls, [url |-> url_text, parameters |-> <<>>])
                  ELSE urls
          ELSE IF child.name = "ul" /\ urls # <<>>
          THEN LET lis == find_all(child, "li")
               IN [urls EXCEPT ![Len(urls)].parameters =
                     @ \o param_lines(lis, Len(lis))]
          ELSE urls

\* a parser that returns every URL item it met, with or without parameters
parse_burp_html_unfiltered(soup) ==
  LET ul == main_ul(soup)
  IN IF ul = None THEN <<>>
     ELSE scan_children(ul[1].kids, Len(ul[1].kids))

\* parse_burp_html of src/Full_Files/app.py on the tree of the document
parse_burp_html(soup) ==
  LET ul == main_ul(soup)
  IN IF ul = None THEN <<>>
     ELSE SelectSeq(scan_children(ul[1].kids, Len(ul[1].kids)),
                    LAMBDA u : u.parameters # <<>>)

\* a call that returned a value, and a call that raised
Returned(value) == [raised |-> "", value |-> value]

Raised(error) == [raised |-> error, value |-> <<>>]

\* parse_burp_html of src/ParaDoWat.py, lines 32-70, for the cleaned
\* document: the working list is soup.find('ul')
parse_burp_html_cleaned(soup) ==
  LET ul == find(soup, "ul")
  IN IF ul = None THEN <<>>
     ELSE SelectSeq(scan_children(ul[1].kids, Len(ul[1].kids)),
                    LAMBDA u : u.parameters # <<>>)

\* parse_burp_html of src/burp-tracker-streamlit.py: the working list is
\* soup.find('body').find('ul'); without a body element find('body') is
\* None and the call of .find on it raises AttributeError
parse_burp_html_streamlit(soup) ==
  LET body == find(soup, "body")
  IN IF body = None THEN Raised("AttributeError")
     ELSE LET ul == find(body[1].kids, "ul")
          IN IF ul = None THEN Returned(<<>>)
             ELSE Returned(SelectSeq(scan_children(ul[1].kids, Len(ul[1].kids)),
                                     LAMBDA u : u.parameters # <<>>))

\* ''.join(strings)
RECURSIVE JoinTexts(_)
JoinTexts(nodes) ==
  IF nodes = <<>> THEN <<>>
  ELSE (IF nodes[1].name = "#text" THEN nodes[1].text ELSE <<>>)
       \o JoinTexts(Tail(nodes))

\* tag.get_text()
get_text(node) == JoinTexts(Descendants(node.kids))

\* the loop over soup.find_all('h2'): the place of the first h2, in document
\* order, with 'Dynamic URLs' in its text
RECURSIVE find_header_containing(_, _)
find_header_containing(sibs, i) ==
  IF i > Len(sibs) THEN None
  ELSE IF sibs[i].name = "h2" /\ IsSubstring(DYNAMIC_URLS, get_text(sibs[i]))
       THEN Some([sibs |-> sibs, idx |-> i])
  ELSE LET below == find_header_containing(sibs[i].kids, 1)
       IN IF below # None THEN below ELSE find_header_containing(sibs, i + 1)

\* the index of header.find_next_sibling(name) among the siblings, 0 for None
next_sibling_index(place, n) ==
  LET later == {j \in (place.idx + 1)..Len(place.sibs) : place.sibs[j].name = n}
  IN IF later = {} THEN 0 ELSE CHOOSE j \in later : \A k \in later : j <= k

\* lines 327-333 of src/ParaDoWat.py: the siblings of the heading once the
\* next h2 and every sibling after it are extracted.  An extracted node
\* leaves the tree and keeps its own children.
extract_next_section(place) ==
  LET next_header == next_sibling_index(place, "h2")
  IN IF next_header = 0 THEN place.sibs
     ELSE SubSeq(place.sibs, 1, next_header - 1)

\* li.find(text=True, recursive=False): the first string among the children
first_string(node) ==
  LET strings == SelectSeq(node.kids, LAMBDA d : d.name = "#text")
  IN IF strings = <<>> THEN None ELSE Some(strings[1].text)

\* the loop over main_ul.find_all('li', recursive=False)
RECURSIVE nested_items(_, _)
nested_items(lis, n) ==
  IF n = 0 THEN <<>>
  ELSE LET urls == nested_items(lis, n - 1)
           li == lis[n]
           found == first_string(li)
           url_text == IF found = None THEN <<>> ELSE Strip(found[1])
       IN IF url_text = <<>> \/ ~StartsWith(url_text, HTTP) THEN urls
          ELSE LET nested_ul == find(li.kids, "ul")
                   lines == IF nested_ul = None THEN <<>>
                            ELSE find_all(nested_ul[1], "li")
                   parameters == param_lines(lines, Len(lines))
               IN IF parameters # <<>>
                  THEN Append(urls, [url |-> url_text, parameters |-> parameters])
                  ELSE urls

\* parse_burp_html of src/ParaDoWat.py, lines 302-369.  main_ul is bound
\* before the next section is extracted, and the loop reads main_ul.
parse_burp_html_sections(soup) ==
  LET dynamic_header == find_header_containing(soup, 1)
  IN IF dynamic_header = None THEN <<>>
     ELSE LET ul == find_next_sibling(dynamic_header[1], "ul")
              rest == extract_next_section(dynamic_header[1])
          IN IF ul = None THEN <<>>
             ELSE LET lis == SelectSeq(ul[1].kids, LAMBDA d : d.name = "li")
                  IN nested_items(lis, Len(lis))

(* --------------------------- inputs and state ------------------------- *)

S_id == <<"i","d">>

S_a == <<"a">>

S_b == <<"b">>

S_zz == <<"z","z">>

S_q == <<"q">>

S_1 == <<"1">>

Digits == <<"1","2","3","4","5","6","7","8","9">>

\* the URL of the i-th record of an input sequence
UrlOf(i) == <<"h","t","t","p",":","/","/","x","/">> \o <<Digits[i]>>

\* most parameter instances in one input of the aggregator (simple sort)
MaxAggParams == 4

\* most parameter instances in one input of the aggregator (priority sort)
MaxPrioParams == 4

\* most parameter instances in the narrow records of one co-occurrence input
MaxCoParams == 4

\* parameters the inputs of the simple-sort aggregator are built from:
\* three keys, one of them with two values
AggPool ==
  { [key |-> S_id, value |-> S_1],
    [key |-> S_a, value |-> <<>>], [key |-> S_a, value |-> S_1],
    [key |-> S_b, value |-> S_1] }

\* parameters the inputs of the priority-sort aggregator are built from: a
\* key with two auto tags and two keys with none, with blank, plain and
\* literal '(empty)' values
PrioPool ==
  { [key |-> S_id, value |-> S_1],
    [key |-> S_a, value |-> <<>>], [key |-> S_a, value |-> S_1],
    [key |-> S_b, value |-> <<>>], [key |-> S_b, value |-> S_1],
    [key |-> S_b, value |-> EMPTY_SENTINEL] }

CoPool == {[key |-> k, value |-> S_1] : k \in {S_id, S_a, S_b}}

\* a record carrying 'id' and more partner keys than the result may list
WideKeys ==
  << S_id, <<"k","1">>, <<"k","2">>, <<"k","3">>, <<"k","4">>, <<"k","5">>,
     <<"k","6">>, <<"k","7">>, <<"k","8">>, <<"k","9">>, <<"k","a">>,
     <<"k","b">>, S_a >>

WideRecord(i) ==
  [url |-> UrlOf(i),
   parameters |-> [j \in 1..Len(WideKeys) |-> [key |-> WideKeys[j], value |-> S_1]]]

\* the names queries ask for: keys of the inputs and an unknown name
Targets == {S_id, S_a, S_b, S_q, S_zz}

TotalParams(urls) == Len(Instances(urls))

(* ------------------------------ documents ----------------------------- *)

H2(s) == Tag("h2", <<Text(s)>>)

LI(s) == Tag("li", <<Text(s)>>)

UL(kids) == Tag("ul", kids)

Page(kids) == <<Tag("html", <<Tag("body", kids)>>)>>

\* the heading, its list with the parameter lists as following siblings,
\* and a second section after it
DocSections ==
  Page(<< H2(DYNAMIC_URLS),
          UL(<< LI(<<"h","t","t","p",":","/","/","x","/","1">>), UL(<< LI(<<"i","d","=","1">>), LI(<<"a","=","1">>) >>),
                LI(<<"h","t","t","p",":","/","/","x","/","2">>), UL(<< LI(<<"i","d","=","2">>) >>) >>),
          H2(<<"S","t","a","t","i","c"," ","U","R","L","s">>),
          UL(<< LI(<<"h","t","t","p",":","/","/","x","/","s">>), UL(<< LI(<<"q","=","1">>) >>) >>) >>)

\* lines with blanks around the text, without '=' and with a second '='
DocLines ==
  Page(<< H2(DYNAMIC_URLS),
          UL(<< Text(<<" ">>), LI(<<" ","h","t","t","p",":","/","/","x","/","3"," ">>),
                UL(<< LI(<<"b">>), LI(<<" ","a"," ","="," ","x","=","y"," ">>), LI(<<" ">>) >>),
                LI(<<"f","t","p",":","/","/","x","/","4">>) >>) >>)

\* the heading with no list after it
DocNoList == Page(<< H2(DYNAMIC_URLS) >>)

\* no heading: the first list of the body
DocNoHeading ==
  Page(<< H2(<<"D","y","n","a","m","i","c">>),
          UL(<< LI(<<"h","t","t","p",":","/","/","x","/","5">>), UL(<< LI(<<"q","=","1">>), LI(<<"i","d","=">>) >>) >>) >>)

\* the parameter list as a child of the URL item
DocNested ==
  Page(<< H2(DYNAMIC_URLS),
          UL(<< Tag("li", << Text(<<"h","t","t","p",":","/","/","x","/","6">>),
                             UL(<< LI(<<"i","d","=","1">>) >>) >>) >>) >>)

\* no body element and no heading
DocNoBody == << UL(<< LI(<<"h","t","t","p",":","/","/","x","/","7">>), UL(<< LI(<<"a","=","1">>) >>) >>) >>

\* a key more than once in one record, and a literal '(empty)' value
DocRepeat ==
  Page(<< H2(DYNAMIC_URLS),
          UL(<< LI(<<"h","t","t","p",":","/","/","x","/","8">>),
                UL(<< LI(<<"i","d","=","1">>), LI(<<"a","=","1">>), LI(<<"a","=","2">>), LI(<<"i","d","=","3">>) >>),
                LI(<<"h","t","t","p",":","/","/","x","/","8">>),
                UL(<< LI(<<"b","=">>), LI(<<"b","=","(","e","m","p","t","y",")">>) >>) >>) >>)

\* three keys seen once each, in descending name order
DocTies ==
  Page(<< H2(DYNAMIC_URLS),
          UL(<< LI(<<"h","t","t","p",":","/","/","x","/","9">>), UL(<< LI(<<"i","d","=","1">>), LI(<<"b","=","1">>) >>),
                LI(<<"h","t","t","p",":","/","/","x","/","9","?","a">>), UL(<< LI(<<"a","=","1">>) >>) >>) >>)

STATIC_URLS == <<"S","t","a","t","i","c"," ","U","R","L","s">>

\* a working list in the first shape: each parameter list is the following
\* sibling of its URL item; the second item has no parameter list
ListSiblings ==
  UL(<< LI(<<"h","t","t","p",":","/","/","x","/","1">>), UL(<< LI(<<"i","d","=","1">>), LI(<<"a","=","1">>) >>),
        LI(<<"h","t","t","p",":","/","/","x","/","2">>),
        LI(<<"h","t","t","p",":","/","/","x","/","3">>), UL(<< LI(<<"b","=">>) >>) >>)

\* a working list in the second shape: each parameter list is a child of
\* its URL item; the second item has no parameter list
ListChildren ==
  UL(<< Tag("li", << Text(<<"h","t","t","p",":","/","/","x","/","4">>), UL(<< LI(<<"i","d","=","1">>), LI(<<"q","=","1">>) >>) >>),
        LI(<<"h","t","t","p",":","/","/","x","/","5">>),
        Tag("li", << Text(<<"h","t","t","p",":","/","/","x","/","6">>), UL(<< LI(<<"a">>) >>) >>) >>)

\* a list in both shapes at once: a URL item with a child list, followed by
\* a sibling list
ListMixed ==
  UL(<< Tag("li", << Text(<<"h","t","t","p",":","/","/","x","/","7">>), UL(<< LI(<<"b","=","1">>) >>) >>),
        UL(<< LI(<<"a","=","2">>) >>) >>)

\* a list with no URL item
ListPlain == UL(<< LI(<<"f","t","p",":","/","/","x","/","8">>), UL(<< LI(<<"a","=","1">>) >>) >>)

\* what documents are built from: the nodes below the body element
Pieces ==
  << H2(DYNAMIC_URLS), H2(STATIC_URLS),
     ListSiblings, ListChildren, ListMixed, ListPlain >>

\* most nodes below the body element of a built document
MaxNodes == 4

\* the tree of a built document, with the body element or without it
Soup(doc) == IF doc.body THEN Page(doc.nodes) ELSE doc.nodes

\* the characters parameter lines are built from
LineChars == {"a", "1", "=", " "}

\* most characters of a built parameter line
MaxLineLen == 4

\* a document with one URL item and two parameter lines: the built line and
\* a line with key 'a' and a value
LineDoc(line) ==
  Page(<< H2(DYNAMIC_URLS),
          UL(<< LI(<<"h","t","t","p",":","/","/","x","/","1">>), UL(<< LI(line), LI(<<"a","=","1">>) >>) >>) >>)

\* the characters parameter names are built from: they spell patterns of
\* four tags ('id', 'uid', 'q', 'dir'), two of them in either letter case
NameChars == {"i", "d", "u", "q", "r", "I", "D"}

\* most characters of a built parameter name
MaxNameLen == 3

\* the uploaded files: bytes that decode as UTF-8 to a document, or do not
Docs ==
  << [decodable |-> TRUE, soup |-> DocSections],
     [decodable |-> TRUE, soup |-> DocLines],
     [decodable |-> TRUE, soup |-> DocNoList],
     [decodable |-> TRUE, soup |-> DocNoHeading],
     [decodable |-> TRUE, soup |-> DocNested],
     [decodable |-> TRUE, soup |-> DocNoBody],
     [decodable |-> TRUE, soup |-> DocRepeat],
     [decodable |-> TRUE, soup |-> DocTies],
     [decodable |-> FALSE, soup |-> <<>>] >>

\* an upload request: no file part, an empty filename, or a file
Requests ==
  { [part |-> FALSE, filename |-> FALSE, doc |-> 1],
    [part |-> TRUE, filename |-> FALSE, doc |-> 1] }
  \cup {[part |-> TRUE, filename |-> TRUE, doc |-> d] : d \in 1..Len(Docs)}

(* ------------------------------ the server ---------------------------- *)

\* app_data = {'urls': [], 'processed': None}
InitApp ==
  /\ app_data = [urls |-> <<>>, processed |-> None]
  /\ loads = <<>>
  /\ response = None
  /\ threads = <<>>
  /\ program = "app.py"

\* the inputs of the pure functions: records, a document, a text
InitInputs ==
  in_urls = <<>> /\ in_doc = [body |-> TRUE, nodes |-> <<>>] /\ in_text = <<>>

FnUnchanged == UNCHANGED <<in_urls, in_doc, in_text, out, threads, program>>

Reply(op, arg, status, error, data) ==
  [op |-> op, arg |-> arg, status |-> status, error |-> error, data |-> data]

\* the checks of upload before it parses; None when they pass.  An
\* undecodable file raises UnicodeDecodeError out of the handler.
upload_rejection(req) ==
  IF ~req.part THEN Some([status |-> 400, error |-> "No file uploaded"])
  ELSE IF ~req.filename THEN Some([status |-> 400, error |-> "No file selected"])
  ELSE IF ~Docs[req.doc].decodable
       THEN Some([status |-> 500, error |-> "UnicodeDecodeError"])
  ELSE None

\* the documents uploaded with success, the latest last; the last two are kept
LastTwo(s) == IF Len(s) > 2 THEN Tail(s) ELSE s

\* a store that extends the held records instead of replacing them
store_merge(data, urls, processed) ==
  [urls |-> data.urls \o urls, processed |-> Some(processed)]

\* app_data['urls'] = urls; app_data['processed'] = processed
store(data, urls, processed) == [urls |-> urls, processed |-> Some(processed)]

\* upload: the whole handler
upload ==
  \E req \in Requests :
    LET rejection == upload_rejection(req)
    IN IF rejection # None
       THEN /\ response' = Some(Reply("upload", <<req.doc>>, rejection[1].status,
                                      rejection[1].error, None))
            /\ UNCHANGED <<app_data, loads>>
            /\ FnUnchanged
       ELSE LET urls == parse_burp_html(Docs[req.doc].soup)
            IN \E set_order \in Perms(all_params(urls)) :
                 LET processed == process_urls(urls, set_order)
                 IN /\ app_data' = store(app_data, urls, processed)
                    /\ loads' = LastTwo(Append(loads, req.doc))
                    /\ response' = Some(Reply("upload", <<req.doc>>, 200, "",
                                              Some(processed)))
                    /\ FnUnchanged

\* get_parameter_details that tests the URL records, as get_relationships does
parameter_details_by_urls(data, param_name) ==
  IF data.urls = <<>>
  THEN Reply("get_parameter_details", param_name, 400, "No data loaded", None)
  ELSE IF ~DictHas(data.processed[1].params, param_name)
  THEN Reply("get_parameter_details", param_name, 404, "Parameter not found", None)
  ELSE Reply("get_parameter_details", param_name, 200, "",
             Some(DictGet(data.processed[1].params, param_name)))

\* the reply of get_parameter_details.  The index, once stored, is a dict
\* of four keys, so 'not app_data["processed"]' is true of None only.
parameter_details(data, param_name) ==
  IF data.processed = None
  THEN Reply("get_parameter_details", param_name, 400, "No data loaded", None)
  ELSE IF ~DictHas(data.processed[1].params, param_name)
  THEN Reply("get_parameter_details", param_name, 404, "Parameter not found", None)
  ELSE Reply("get_parameter_details", param_name, 200, "",
             Some(DictGet(data.processed[1].params, param_name)))

\* the reply of get_relationships
relationships(data, param_name) ==
  IF data.urls = <<>>
  THEN Reply("get_relationships", param_name, 400, "No data loaded", None)
  ELSE Reply("get_relationships", param_name, 200, "",
             Some(get_co_occurrence(data.urls, param_name)))

\* get_parameter_details: the whole handler
get_parameter_details ==
  \E param_name \in Targets :
    /\ response' = Some(parameter_details(app_data, param_name))
    /\ UNCHANGED <<app_data, loads>>
    /\ FnUnchanged

\* get_relationships: the whole handler
get_relationships ==
  \E param_name \in Targets :
    /\ response' = Some(relationships(app_data, param_name))
    /\ UNCHANGED <<app_data, loads>>
    /\ FnUnchanged

Init == InitApp /\ InitInputs /\ out = None

Next == upload \/ get_parameter_details \/ get_relationships

\* the server handling one request at a time
Spec == Init /\ [][Next]_vars

(* ------------------- the server of src/ParaDoWat.py ------------------- *)

\* The first application of src/ParaDoWat.py uploads through the script
\* src/extract-dynamic-urls.py, run as a subprocess on a temporary copy of
\* the file; its query handlers are those of src/Full_Files/app.py.

\* the loop of the script over soup.find_all('h2'): the place of the first
\* h2 with 'Dynamic' and 'URL' in its stripped text
RECURSIVE find_target_h2(_, _)
find_target_h2(sibs, i) ==
  IF i > Len(sibs) THEN None
  ELSE IF /\ sibs[i].name = "h2"
          /\ IsSubstring(<<"D","y","n","a","m","i","c">>, get_text_strip(sibs[i]))
          /\ IsSubstring(<<"U","R","L">>, get_text_strip(sibs[i]))
       THEN Some([sibs |-> sibs, idx |-> i])
  ELSE LET below == find_target_h2(sibs[i].kids, 1)
       IN IF below # None THEN below ELSE find_target_h2(sibs, i + 1)

\* extract_dynamic_urls: the document written to the output file, as the
\* parser reads it back (the list is written with str(ul), which for the
\* texts of these documents parses back to the same tree), or None when the
\* script ends with sys.exit(1)
extract_dynamic_urls(soup) ==
  LET target_h2 == find_target_h2(soup, 1)
  IN IF target_h2 = None THEN None
     ELSE LET ul == find_next_sibling(target_h2[1], "ul")
          IN IF ul = None THEN None
             ELSE Some(<< Tag("html",
                            << Tag("head", << Tag("title",
                                 << Text(<<"D","y","n","a","m","i","c"," ","U","R","L","s"," ","-"," ","E","x","t","r","a","c","t","e","d">>) >>) >>),
                               Tag("body", << H2(DYNAMIC_URLS), ul[1] >>) >>) >>)

\* how the subprocess and the reading of its output can end: the script
\* ran to its end or to its sys.exit(1), could not be run (a return code
\* other than 0), ran past the timeout of 30 seconds, or a call of the try
\* block before the store raised (subprocess.run, open, read)
Runs == {"ran", "failed", "timeout", "error"}

\* the reply of upload when it does not store; None when it stores.  The
\* script decodes with errors='replace': a file that is no UTF-8 is a
\* document of replacement characters, with no heading.
upload_extract_failure(req, run) ==
  IF ~req.part THEN Some([status |-> 400, error |-> "No file uploaded"])
  ELSE IF ~req.filename THEN Some([status |-> 400, error |-> "No file selected"])
  ELSE IF run = "timeout" THEN Some([status |-> 500, error |-> "Extraction timed out"])
  ELSE IF run = "error" THEN Some([status |-> 500, error |-> "Error"])
  ELSE IF run = "failed" \/ extract_dynamic_urls(Docs[req.doc].soup) = None
       THEN Some([status |-> 400, error |-> "Extraction failed"])
  ELSE None

\* a handler that empties the store when the upload fails
store_or_reset(data, failure, urls, processed) ==
  IF failure # None THEN [urls |-> <<>>, processed |-> None]
  ELSE store(data, urls, processed)

\* lines 204-222: every return and every except clause comes before the
\* two assignments to app_data
store_unless_failed(data, failure, urls, processed) ==
  IF failure # None THEN data ELSE store(data, urls, processed)

\* upload of src/ParaDoWat.py: the whole handler
upload_extract ==
  \E req \in Requests, run \in Runs :
    LET failure == upload_extract_failure(req, run)
        cleaned == IF failure = None
                   THEN extract_dynamic_urls(Docs[req.doc].soup)[1] ELSE <<>>
        urls == parse_burp_html_cleaned(cleaned)
    IN \E set_order \in Perms(all_params(urls)) :
         LET processed == process_urls_priority(urls, set_order)
         IN /\ app_data' = store_unless_failed(app_data, failure, urls, processed)
            /\ loads' = IF failure = None THEN LastTwo(Append(loads, req.doc))
                        ELSE loads
            /\ response' =
                 Some(IF failure # None
                      THEN Reply("upload", <<req.doc>>, failure[1].status,
                                 failure[1].error, None)
                      ELSE Reply("upload", <<req.doc>>, 200, "", Some(processed)))
            /\ FnUnchanged

\* the application that runs
Programs == {"app.py", "ParaDoWat.py"}

InitEither ==
  /\ app_data = [urls |-> <<>>, processed |-> None]
  /\ loads = <<>>
  /\ response = None
  /\ threads = <<>>
  /\ program \in Programs
  /\ InitInputs
  /\ out = None

NextEither ==
  \/ program = "app.py" /\ upload
  \/ program = "ParaDoWat.py" /\ upload_extract
  \/ get_parameter_details
  \/ get_relationships

\* either application handling one request at a time
SpecEither == InitEither /\ [][NextEither]_vars

(* ---------------------- requests handled in threads ------------------ *)

\* The development server (app.run) handles each request in a thread of
\* its own; the handlers take no lock, so they interleave statement by
\* statement.  A thread is at a statement of its handler or idle.

\* request threads
NThreads == 2

Threads == 1..NThreads

\* the files and names the interleaved requests use
ConcRequests == {r \in Requests : r.doc \in {1, 2, 3, Len(Docs)}}

ConcNames == {S_id, S_b}

IdleThread ==
  [pc |-> "idle", op |-> "", arg |-> <<>>, urls |-> <<>>, processed |-> None,
   seen |-> <<>>, reply |-> None]

InitConc ==
  /\ app_data = [urls |-> <<>>, processed |-> None]
  /\ loads = <<>>
  /\ response = None
  /\ threads = [t \in Threads |-> IdleThread]
  /\ program = "app.py"
  /\ InitInputs
  /\ out = None

ConcUnchanged ==
  UNCHANGED <<loads, response, program, in_urls, in_doc, in_text, out>>

\* upload, lines 151-165: the checks, parse_burp_html and process_urls
\* into the handler's locals
upload_begin(t) ==
  /\ threads[t].pc = "idle"
  /\ \E req \in ConcRequests :
       LET rejection == upload_rejection(req)
       IN IF rejection # None
          THEN threads' = [threads EXCEPT ![t] =
                 [IdleThread EXCEPT !.op = "upload", !.arg = <<req.doc>>,
                    !.reply = Some(Reply("upload", <<req.doc>>, rejection[1].status,
                                         rejection[1].error, None))]]
          ELSE LET urls == parse_burp_html(Docs[req.doc].soup)
               IN \E set_order \in Perms(all_params(urls)) :
                    threads' = [threads EXCEPT ![t] =
                      [IdleThread EXCEPT !.pc = "store_urls", !.op = "upload",
                         !.arg = <<req.doc>>, !.urls = urls,
                         !.processed = Some(process_urls(urls, set_order))]]
  /\ UNCHANGED app_data
  /\ ConcUnchanged

\* upload, line 168: app_data['urls'] = urls
upload_store_urls(t) ==
  /\ threads[t].pc = "store_urls"
  /\ app_data' = [app_data EXCEPT !.urls = threads[t].urls]
  /\ threads' = [threads EXCEPT ![t].pc = "store_processed"]
  /\ ConcUnchanged

\* upload, lines 169-175: app_data['processed'] = processed, and the reply
upload_store_processed(t) ==
  /\ threads[t].pc = "store_processed"
  /\ app_data' = [app_data EXCEPT !.processed = threads[t].processed]
  /\ threads' = [threads EXCEPT ![t].pc = "idle",
                   ![t].reply = Some(Reply("upload", threads[t].arg, 200, "",
                                           threads[t].processed))]
  /\ ConcUnchanged

\* get_parameter_details, line 180: if not app_data['processed']
parameter_check_loaded(t) ==
  /\ threads[t].pc = "idle"
  /\ \E param_name \in ConcNames :
       threads' = [threads EXCEPT ![t] =
         IF app_data.processed = None
         THEN [IdleThread EXCEPT !.op = "get_parameter_details", !.arg = param_name,
                 !.seen = <<app_data.processed>>,
                 !.reply = Some(parameter_details(app_data, param_name))]
         ELSE [IdleThread EXCEPT !.pc = "check_name", !.op = "get_parameter_details",
                 !.arg = param_name, !.seen = <<app_data.processed>>]]
  /\ UNCHANGED app_data
  /\ ConcUnchanged

\* get_parameter_details, line 183: if param_name not in app_data['processed']['params']
parameter_check_name(t) ==
  /\ threads[t].pc = "check_name"
  /\ threads' = [threads EXCEPT ![t] =
       IF ~DictHas(app_data.processed[1].params, threads[t].arg)
       THEN [@ EXCEPT !.pc = "idle", !.seen = Append(@, app_data.processed),
               !.reply = Some(parameter_details(app_data, threads[t].arg))]
       ELSE [@ EXCEPT !.pc = "fetch", !.seen = Append(@, app_data.processed)]]
  /\ UNCHANGED app_data
  /\ ConcUnchanged

\* get_parameter_details, lines 186-189: app_data['processed']['params'][param_name],
\* a KeyError when the index read here does not hold the name
parameter_fetch(t) ==
  /\ threads[t].pc = "fetch"
  /\ threads' = [threads EXCEPT ![t] =
       [@ EXCEPT !.pc = "idle", !.seen = Append(@, app_data.processed),
          !.reply =
            IF DictHas(app_data.processed[1].params, threads[t].arg)
            THEN Some(parameter_details(app_data, threads[t].arg))
            ELSE Some(Reply("get_parameter_details", threads[t].arg, 500,
                            "KeyError", None))]]
  /\ UNCHANGED app_data
  /\ ConcUnchanged

\* get_relationships, line 194: if not app_data['urls']
relationships_check_loaded(t) ==
  /\ threads[t].pc = "idle"
  /\ \E param_name \in ConcNames :
       threads' = [threads EXCEPT ![t] =
         IF app_data.urls = <<>>
         THEN [IdleThread EXCEPT !.op = "get_relationships", !.arg = param_name,
                 !.seen = <<app_data.urls>>,
                 !.reply = Some(relationships(app_data, param_name))]
         ELSE [IdleThread EXCEPT !.pc = "compute", !.op = "get_relationships",
                 !.arg = param_name, !.seen = <<app_data.urls>>]]
  /\ UNCHANGED app_data
  /\ ConcUnchanged

\* get_relationships, lines 197-202: get_co_occurrence(app_data['urls'], param_name)
relationships_compute(t) ==
  /\ threads[t].pc = "compute"
  /\ threads' = [threads EXCEPT ![t] =
       [@ EXCEPT !.pc = "idle", !.seen = Append(@, app_data.urls),
          !.reply = Some(Reply("get_relationships", threads[t].arg, 200, "",
                               Some(get_co_occurrence(app_data.urls, threads[t].arg))))]]
  /\ UNCHANGED app_data
  /\ ConcUnchanged

NextConc ==
  \E t \in Threads :
    \/ upload_begin(t)
    \/ upload_store_urls(t)
    \/ upload_store_processed(t)
    \/ parameter_check_loaded(t)
    \/ parameter_check_name(t)
    \/ parameter_fetch(t)
    \/ relationships_check_loaded(t)
    \/ relationships_compute(t)

\* the server handling requests in concurrent threads
SpecConc == InitConc /\ [][NextConc]_vars

(* --------------------- the pure functions on inputs ------------------- *)

InitFn == InitApp /\ InitInputs /\ out = None

ServerUnchanged == UNCHANGED <<app_data, loads, response, threads, program>>

AppUnchanged == ServerUnchanged /\ UNCHANGED <<in_doc, in_text>>

\* the input grows by a record with one parameter
AddRecord(pool, max) ==
  /\ out = None
  /\ TotalParams(in_urls) < max
  /\ \E p \in pool :
       in_urls' = Append(in_urls,
                    [url |-> UrlOf(Len(in_urls) + 1), parameters |-> <<p>>])
  /\ UNCHANGED out
  /\ AppUnchanged

\* the last record of the input grows by a parameter
AddParam(pool, max) ==
  /\ out = None
  /\ in_urls # <<>>
  /\ TotalParams(in_urls) < max
  /\ \E p \in pool :
       in_urls' = [in_urls EXCEPT ![Len(in_urls)].parameters = Append(@, p)]
  /\ UNCHANGED out
  /\ AppUnchanged

HasWide(urls) == \E i \in 1..Len(urls) : Len(urls[i].parameters) = Len(WideKeys)

AddWide ==
  /\ out = None
  /\ ~HasWide(in_urls)
  /\ in_urls' = Append(in_urls, WideRecord(Len(in_urls) + 1))
  /\ UNCHANGED out
  /\ AppUnchanged

\* process_urls(urls) of src/Full_Files/app.py on the input
Aggregate ==
  /\ out = None
  /\ \E set_order \in Perms(all_params(in_urls)) :
       out' = Some([op |-> "process_urls", target |-> <<>>,
                    result |-> process_urls(in_urls, set_order)])
  /\ UNCHANGED in_urls
  /\ AppUnchanged

\* process_urls(urls) of src/ParaDoWat.py (priority sort) on the input
AggregatePriority ==
  /\ out = None
  /\ \E set_order \in Perms(all_params(in_urls)) :
       out' = Some([op |-> "process_urls_priority", target |-> <<>>,
                    result |-> process_urls_priority(in_urls, set_order)])
  /\ UNCHANGED in_urls
  /\ AppUnchanged

\* get_co_occurrence(urls, target_param) on the input
CoOccurrence ==
  /\ out = None
  /\ \E target_param \in Targets :
       out' = Some([op |-> "get_co_occurrence", target |-> target_param,
                    result |-> get_co_occurrence(in_urls, target_param)])
  /\ UNCHANGED in_urls
  /\ AppUnchanged

NextAgg ==
  \/ AddRecord(AggPool, MaxAggParams)
  \/ AddParam(AggPool, MaxAggParams)
  \/ Aggregate
  \/ AggregatePriority

NextPrio ==
  \/ AddRecord(PrioPool, MaxPrioParams)
  \/ AddParam(PrioPool, MaxPrioParams)
  \/ AggregatePriority

NextCo ==
  \/ AddRecord(CoPool, MaxCoParams)
  \/ AddParam(CoPool, MaxCoParams)
  \/ AddWide
  \/ CoOccurrence

InputsUnchanged == ServerUnchanged /\ UNCHANGED <<in_urls, in_text>>

\* the document grows by a node below the body element
AddNode ==
  /\ out = None
  /\ Len(in_doc.nodes) < MaxNodes
  /\ \E i \in 1..Len(Pieces) :
       in_doc' = [in_doc EXCEPT !.nodes = Append(@, Pieces[i])]
  /\ UNCHANGED out
  /\ InputsUnchanged

\* the document loses its body element
DropBody ==
  /\ out = None
  /\ in_doc.body
  /\ in_doc' = [in_doc EXCEPT !.body = FALSE]
  /\ UNCHANGED out
  /\ InputsUnchanged

Called(op, outcome) == Some([op |-> op, target |-> <<>>, result |-> outcome])

\* parse_burp_html of src/Full_Files/app.py on the document
ParseApp ==
  /\ out = None
  /\ out' = Called("parse_burp_html", Returned(parse_burp_html(Soup(in_doc))))
  /\ UNCHANGED in_doc
  /\ InputsUnchanged

\* parse_burp_html of src/ParaDoWat.py, lines 32-70, on the document
ParseCleaned ==
  /\ out = None
  /\ out' = Called("parse_burp_html_cleaned",
                   Returned(parse_burp_html_cleaned(Soup(in_doc))))
  /\ UNCHANGED in_doc
  /\ InputsUnchanged

\* parse_burp_html of src/burp-tracker-streamlit.py on the document
ParseStreamlit ==
  /\ out = None
  /\ out' = Called("parse_burp_html_streamlit",
                   parse_burp_html_streamlit(Soup(in_doc)))
  /\ UNCHANGED in_doc
  /\ InputsUnchanged

\* parse_burp_html of src/ParaDoWat.py, lines 302-369, on the document
ParseSections ==
  /\ out = None
  /\ out' = Called("parse_burp_html_sections",
                   Returned(parse_burp_html_sections(Soup(in_doc))))
  /\ UNCHANGED in_doc
  /\ InputsUnchanged

NextParse ==
  \/ AddNode
  \/ DropBody
  \/ ParseApp
  \/ ParseCleaned
  \/ ParseStreamlit
  \/ ParseSections

\* every parser variant applied to every bounded document
SpecParse == InitFn /\ [][NextParse]_vars

\* the parameter line grows by a character
AddLineChar ==
  /\ out = None
  /\ Len(in_text) < MaxLineLen
  /\ \E c \in LineChars : in_text' = Append(in_text, c)
  /\ UNCHANGED <<out, in_urls, in_doc>>
  /\ ServerUnchanged

\* parse_burp_html on the document of the line, then process_urls of both
\* kinds on its result
ParseAndProcess ==
  /\ out = None
  /\ LET urls == parse_burp_html(LineDoc(in_text))
     IN \E set_order \in Perms(all_params(urls)) :
          out' = Called("parse_and_process",
                        [urls |-> urls,
                         simple |-> process_urls(urls, set_order),
                         priority |-> process_urls_priority(urls, set_order)])
  /\ UNCHANGED <<in_text, in_urls, in_doc>>
  /\ ServerUnchanged

NextLine == AddLineChar \/ ParseAndProcess

\* parser and aggregators applied to every bounded parameter line
SpecLine == InitFn /\ [][NextLine]_vars

\* the parameter name grows by a character
AddNameChar ==
  /\ out = None
  /\ Len(in_text) < MaxNameLen
  /\ \E c \in NameChars : in_text' = Append(in_text, c)
  /\ UNCHANGED <<out, in_urls, in_doc>>
  /\ ServerUnchanged

\* get_auto_tags(param_name) on the name
Classify ==
  /\ out = None
  /\ out' = Called("get_auto_tags", get_auto_tags(in_text))
  /\ UNCHANGED <<in_text, in_urls, in_doc>>
  /\ ServerUnchanged

NextTags == AddNameChar \/ Classify

\* the tag classifier applied to every bounded parameter name
SpecTags == InitFn /\ [][NextTags]_vars

\* both aggregators applied to every bounded record sequence
SpecAgg == InitFn /\ [][NextAgg]_vars

\* the priority-sort aggregator applied to every bounded record sequence
SpecPrio == InitFn /\ [][NextPrio]_vars

\* the relationship engine applied to every bounded record sequence
SpecCo == InitFn /\ [][NextCo]_vars

(* ------------------------------- claims ------------------------------- *)

IsIndex(o) == o # None /\ o[1].op \in {"process_urls", "process_urls_priority"}

\* the keys of an input, listed from the records themselves
InputKeys(urls) ==
  UNION {{urls[i].parameters[j].key : j \in 1..Len(urls[i].parameters)} :
           i \in 1..Len(urls)}

\* the keys of one record
RecordKeys(url_obj) ==
  {url_obj.parameters[j].key : j \in 1..Len(url_obj.parameters)}

\* how many parameter instances of an input carry key k
InstanceCount(urls, k) ==
  Cardinality({<<i, j>> \in (1..Len(urls)) \X (1..TotalParams(urls)) :
                 j <= Len(urls[i].parameters) /\ urls[i].parameters[j].key = k})

RECURSIVE SumOf(_)
SumOf(s) == IF s = <<>> THEN 0 ELSE s[1] + SumOf(Tail(s))

\* a set of strings as the list in ascending order
Ascending(S) ==
  CHOOSE p \in Perms(S) : \A i \in 1..(Len(p) - 1) : StrLess(p[i], p[i + 1])

\* the index the held URL records aggregate to
IndexOf_urls(urls) == process_urls(urls, Ascending(InputKeys(urls)))

IsRead(op) == op \in {"get_parameter_details", "get_relationships"}

\* the held index is the aggregate of the held URL records
OneLoad(data) ==
  IF data.processed = None THEN data.urls = <<>>
  ELSE data.processed[1] = IndexOf_urls(data.urls)

\* C1: with uploads and reads in concurrent threads, no read request is in
\* flight while the held URL records and the held index come from different
\* loads, every value one read request reads from app_data is the same
\* dataset, and so no read fails on a name it has just found.
C1_ReadsSeeOneDataset ==
  \A t \in DOMAIN threads :
    /\ (IsRead(threads[t].op) /\ threads[t].pc # "idle") => OneLoad(app_data)
    /\ IsRead(threads[t].op) =>
         \A i, j \in 1..Len(threads[t].seen) : threads[t].seen[i] = threads[t].seen[j]
    /\ (IsRead(threads[t].op) /\ threads[t].reply # None) =>
         threads[t].reply[1].status # 500

\* C2: with requests handled one at a time, the held URL records are the
\* parse of the last document uploaded with success and the held index is
\* their aggregate (nothing of an earlier upload remains); before the first
\* such upload the store is as constructed.
C2_HeldDataIsLastUpload ==
  IF loads = <<>>
  THEN app_data = [urls |-> <<>>, processed |-> None]
  ELSE LET urls == parse_burp_html(Docs[loads[Len(loads)]].soup)
       IN /\ app_data.urls = urls
          /\ app_data.processed = Some(IndexOf_urls(urls))
          /\ \A k \in Targets :
               DictHas(app_data.processed[1].params, k) <=> k \in InputKeys(urls)

\* C2 witness: a document with other keys was uploaded after the first one,
\* and a query followed
C2_Witness ==
  /\ loads = <<1, 2>>
  /\ response # None
  /\ response[1].op = "get_relationships"
  /\ app_data.urls # <<>>

\* C3: get_parameter_details answers 'No data loaded' when no upload has
\* succeeded; after one it answers 'Parameter not found' exactly for the
\* names that are no key of the held index, and the held entry otherwise.
C3_ParameterReply ==
  (response # None /\ response[1].op = "get_parameter_details") =>
    LET r == response[1]
    IN IF loads = <<>>
       THEN r.status = 400 /\ r.error = "No data loaded"
       ELSE /\ app_data.processed # None
            /\ (r.status = 404 /\ r.error = "Parameter not found")
                 <=> ~DictHas(app_data.processed[1].params, r.arg)
            /\ DictHas(app_data.processed[1].params, r.arg) =>
                 /\ r.status = 200
                 /\ r.data = Some(DictGet(app_data.processed[1].params, r.arg))

\* C3 witness: a name asked for after the upload of a document that yields
\* no URL record is answered 'Parameter not found'
C3_Witness ==
  /\ response # None
  /\ response[1].op = "get_parameter_details"
  /\ response[1].status = 404
  /\ loads # <<>>
  /\ app_data.urls = <<>>

\* C4: once an upload has succeeded, whatever number of URL records it
\* yielded, get_relationships answers with a sequence (empty for a name no
\* record carries) and never with an error; 'No data loaded' is answered
\* only when no upload has succeeded.
C4_RelationshipsAfterAnyUpload ==
  (response # None /\ response[1].op = "get_relationships") =>
    LET r == response[1]
    IN /\ loads # <<>> =>
            /\ r.status = 200
            /\ r.data # None
            /\ r.arg \notin InputKeys(app_data.urls) => r.data = Some(<<>>)
       /\ r.status = 400 => loads = <<>>

\* C5: in the index of either process_urls, for every key, total_occurrences
\* is the number of parameter instances with that key in the input and the
\* sum of the lengths of the key's URL lists; the totals of all entries add
\* up to the parameters of all records.
C5_OccurrencesConserved ==
  IsIndex(out) =>
    LET params == out[1].result.params
    IN /\ \A k \in InputKeys(in_urls) :
            /\ DictHas(params, k)
            /\ DictGet(params, k).total_occurrences = InstanceCount(in_urls, k)
            /\ LET values == DictGet(params, k).values
               IN SumOf([i \in 1..Len(values) |-> Len(values[i][2])])
                    = DictGet(params, k).total_occurrences
       /\ SumOf([i \in 1..Len(params) |-> params[i][2].total_occurrences])
            = SumOf([i \in 1..Len(in_urls) |-> Len(in_urls[i].parameters)])

\* C5 witness: a key counted three times under two values
C5_Witness ==
  /\ out # None
  /\ out[1].op = "process_urls"
  /\ DictHas(out[1].result.params, S_a)
  /\ DictGet(out[1].result.params, S_a).total_occurrences = 3
  /\ Len(DictGet(out[1].result.params, S_a).values) = 2

\* C6: in the index of either process_urls, all_param_names lists every key
\* of params once and nothing else; total_params is its length and
\* total_urls the number of input records.
C6_NamesPermutation ==
  IsIndex(out) =>
    LET r == out[1].result
        names == r.all_param_names
    IN /\ Len(names) = Len(r.params)
       /\ SeqToSet(names) = SeqToSet(DictKeys(r.params))
       /\ SeqToSet(names) = InputKeys(in_urls)
       /\ \A i, j \in 1..Len(names) : names[i] = names[j] => i = j
       /\ r.total_params = Len(names)
       /\ r.total_urls = Len(in_urls)

\* C6 witness: three keys, one of them only ever seen blank, in two records
C6_Witness ==
  /\ out # None
  /\ out[1].op = "process_urls"
  /\ Len(out[1].result.all_param_names) = 3
  /\ Len(in_urls) = 2
  /\ \A i \in 1..TotalParams(in_urls) :
       Instances(in_urls)[i].param.key = S_a => Instances(in_urls)[i].param.value = <<>>

\* C7: in the index of process_urls of app.py, of two keys of
\* all_param_names the earlier one has the greater
\* total_occurrences, or the same and the smaller name; the order in which
\* the keys were seen or iterated plays no part.
C7_SimpleOrder ==
  (out # None /\ out[1].op = "process_urls") =>
    LET r == out[1].result
        names == r.all_param_names
        occ(k) == DictGet(r.params, k).total_occurrences
    IN \A i, j \in 1..Len(names) :
         i < j => \/ occ(names[i]) > occ(names[j])
                  \/ occ(names[i]) = occ(names[j]) /\ StrLess(names[i], names[j])

\* the place of the first parameter instance with key k
FirstSeen(urls, k) ==
  CHOOSE i \in 1..TotalParams(urls) :
    /\ Instances(urls)[i].param.key = k
    /\ \A j \in 1..(i - 1) : Instances(urls)[j].param.key # k

\* C7 witness: two keys with equal counts, listed against the order they
\* were first seen in
C7_Witness ==
  /\ out # None
  /\ out[1].op = "process_urls"
  /\ LET r == out[1].result
         names == r.all_param_names
     IN /\ Len(names) >= 2
        /\ DictGet(r.params, names[1]).total_occurrences
             = DictGet(r.params, names[2]).total_occurrences
        /\ FirstSeen(in_urls, names[2]) < FirstSeen(in_urls, names[1])

\* whether some observed value of key k is not blank
HasNonBlank(urls, k) ==
  \E i \in 1..TotalParams(urls) :
    Instances(urls)[i].param.key = k /\ Instances(urls)[i].param.value # <<>>

\* the distinct values key k was observed with
ObservedValues(urls, k) ==
  {Instances(urls)[i].param.value :
     i \in {j \in 1..TotalParams(urls) : Instances(urls)[j].param.key = k}}

\* 0 for a parameter with a non-empty value or more than one distinct value,
\* 1 for a parameter whose observed values are all empty
EmptyOnlyRank(urls, k) ==
  IF HasNonBlank(urls, k) \/ Cardinality(ObservedValues(urls, k)) > 1 THEN 0 ELSE 1

\* C8: the priority order is descending total_occurrences, then descending
\* number of auto tags, then parameters with a non-empty value (or more than
\* one distinct value) before parameters whose values are all empty, then
\* ascending name.
C8_PriorityOrder ==
  (out # None /\ out[1].op = "process_urls_priority") =>
    LET names == out[1].result.all_param_names
        rank(k) == <<0 - InstanceCount(in_urls, k), 0 - Len(classify(k)),
                     EmptyOnlyRank(in_urls, k)>>
    IN \A i, j \in 1..Len(names) :
         i < j => \/ NumsLess(rank(names[i]), rank(names[j]))
                  \/ rank(names[i]) = rank(names[j]) /\ StrLess(names[i], names[j])

\* C9: the result of get_co_occurrence never lists the target, has at most
\* 10 entries, lists a partner key once, and its counts do not increase.
C9_CoOccurrenceShape ==
  (out # None /\ out[1].op = "get_co_occurrence") =>
    LET r == out[1].result
    IN /\ \A i \in 1..Len(r) : r[i].param # out[1].target
       /\ Len(r) <= 10
       /\ \A i, j \in 1..Len(r) : r[i].param = r[j].param => i = j
       /\ \A i \in 1..(Len(r) - 1) : r[i].count >= r[i + 1].count

\* C9 witness: a target with twelve partner keys, two of them seen more often
\* than the others, gets ten entries
C9_Witness ==
  /\ out # None
  /\ out[1].op = "get_co_occurrence"
  /\ out[1].target = S_id
  /\ Cardinality(InputKeys(in_urls)) > 11
  /\ Len(out[1].result) = 10
  /\ out[1].result[1].count > out[1].result[10].count

\* C10: the count of a partner key is the number of URL records whose key
\* set holds both the target and the partner, also when a key appears more
\* than once in one record.
C10_CountsPerRecord ==
  (out # None /\ out[1].op = "get_co_occurrence") =>
    \A i \in 1..Len(out[1].result) :
      out[1].result[i].count
        = Cardinality({n \in 1..Len(in_urls) :
                         /\ out[1].target \in RecordKeys(in_urls[n])
                         /\ out[1].result[i].param \in RecordKeys(in_urls[n])})

(* -------------------------- claims on the parser --------------------- *)

ParseOps ==
  {"parse_burp_html", "parse_burp_html_cleaned", "parse_burp_html_streamlit",
   "parse_burp_html_sections"}

IsParse(o) == o # None /\ o[1].op \in ParseOps

\* the list items of a document, in document order
Items(soup) == SelectSeq(Descendants(soup), LAMBDA d : d.name = "li")

\* the text of a list item: all of it, or its own first string
ItemTexts(li) ==
  {get_text_strip(li)} \cup
  (IF first_string(li) = None THEN {} ELSE {Strip(first_string(li)[1])})

\* the URLs are texts of list items taken in the order of the document
RECURSIVE InDocumentOrder(_, _, _, _)
InDocumentOrder(urls, i, items, j) ==
  IF i > Len(urls) THEN TRUE
  ELSE IF j > Len(items) THEN FALSE
  ELSE IF urls[i].url \in ItemTexts(items[j])
       THEN InDocumentOrder(urls, i + 1, items, j + 1)
  ELSE InDocumentOrder(urls, i, items, j + 1)

\* the URL items of the pieces that are followed by no parameter list and
\* hold none
BareItems == {<<"h","t","t","p",":","/","/","x","/","2">>, <<"h","t","t","p",":","/","/","x","/","5">>}

\* C11: every record a parser returns has at least one parameter and a url
\* that starts with 'http'; a URL item that gathered no parameter line is
\* not in the result; the records are in the order of the document
C11_RecordsWellFormed ==
  IsParse(out) /\ out[1].result.raised = "" =>
    LET urls == out[1].result.value
    IN /\ \A i \in 1..Len(urls) :
            /\ urls[i].parameters # <<>>
            /\ StartsWith(urls[i].url, HTTP)
            /\ urls[i].url \notin BareItems
       /\ InDocumentOrder(urls, 1, Items(Soup(in_doc)), 1)

\* the list in the first shape parsed by app.py: the first and third items
\* are returned in that order, the second, without parameters, is not
C11_Witness ==
  /\ IsParse(out)
  /\ out[1].op = "parse_burp_html"
  /\ in_doc.nodes = <<H2(DYNAMIC_URLS), ListSiblings>>
  /\ Len(out[1].result.value) = 2
  /\ out[1].result.value[1].url = <<"h","t","t","p",":","/","/","x","/","1">>
  /\ out[1].result.value[2].url = <<"h","t","t","p",":","/","/","x","/","3">>

(* ------------------------- claims on reloading ------------------------ *)

\* the held index is what process_urls returns for the held records, in
\* whatever order the set of names is visited
Recomputable(data) ==
  data.processed # None =>
    \A set_order \in Perms(all_params(data.urls)) :
      process_urls(data.urls, set_order) = data.processed[1]

\* a step after which the last successful upload is of the same document as
\* before it: a query, a rejected upload, or the same document once more
SameDocument ==
  loads # <<>> /\ loads' # <<>> /\ loads'[Len(loads')] = loads[Len(loads)]

\* C12: process_urls applied again to the held records returns the held
\* index (params, all_param_names in the same order, the counts), and
\* uploading the same document again, with any queries in between, leaves
\* the store as it was after the first upload
C12_ReloadIdempotent ==
  /\ []Recomputable(app_data)
  /\ [][SameDocument => app_data' = app_data]_vars

\* the document with three names seen once each was uploaded twice in a row
C12_Witness ==
  /\ loads = <<8, 8>>
  /\ response # None
  /\ response[1].op = "upload"
  /\ response[1].status = 200
  /\ Len(app_data.processed[1].all_param_names) = 3

(* ---------------------- claims on the section --------------------- *)

\* the variants that look for the heading
HeadingOps == {"parse_burp_html", "parse_burp_html_sections"}

\* the place of the 'Dynamic URLs' heading of the built document, or None
HeadingPlace == find_header_containing(Soup(in_doc), 1)

\* a second h2 follows the heading among its siblings
HasSecondHeading ==
  HeadingPlace # None /\ next_sibling_index(HeadingPlace[1], "h2") # 0

\* the siblings between the heading and the second h2
SectionNodes ==
  LET place == HeadingPlace[1]
  IN SubSeq(place.sibs, place.idx + 1, next_sibling_index(place, "h2") - 1)

\* C13: when a second h2 follows the 'Dynamic URLs' heading among its
\* siblings, every record returned by a variant that looks for the heading
\* is built from a list item located between the two headings, none from a
\* node at or after the second heading
C13_SectionScoped ==
  IsParse(out) /\ out[1].op \in HeadingOps /\ HasSecondHeading =>
    LET urls == out[1].result.value
    IN \A i \in 1..Len(urls) :
         \E j \in 1..Len(Items(SectionNodes)) :
           urls[i].url \in ItemTexts(Items(SectionNodes)[j])

\* the first list of the body element of the built document, or None
FirstBodyList ==
  IF in_doc.body THEN find(in_doc.nodes, "ul") ELSE None

\* the records a variant builds from a working list
RecordsOf(op, ul) ==
  IF op = "parse_burp_html_sections"
  THEN LET lis == SelectSeq(ul.kids, LAMBDA d : d.name = "li")
       IN nested_items(lis, Len(lis))
  ELSE SelectSeq(scan_children(ul.kids, Len(ul.kids)),
                 LAMBDA u : u.parameters # <<>>)

\* C14: when no heading of the document has 'Dynamic URLs' in its text, a
\* variant that looks for the heading works on the first list of the body
\* and returns the records built from it
C14_FallbackToFirstList ==
  IsParse(out) /\ out[1].op \in HeadingOps
    /\ HeadingPlace = None /\ FirstBodyList # None =>
      out[1].result.value = RecordsOf(out[1].op, FirstBodyList[1])

(* ------------------- claims on the document shapes -------------------- *)

\* the parameter lines of a list, in document order
LinesOf(ul) ==
  LET lis == find_all(ul, "li") IN param_lines(lis, Len(lis))

\* the parameter lines of the k-th child of a working list, a URL item: those
\* of the list that is its child, then those of the list that follows it
ItemLines(kids, k) ==
  LET own == SelectSeq(kids[k].kids, LAMBDA d : d.name = "ul")
  IN (IF own = <<>> THEN <<>> ELSE LinesOf(own[1]))
     \o (IF k < Len(kids) /\ kids[k + 1].name = "ul"
         THEN LinesOf(kids[k + 1]) ELSE <<>>)

\* the records of a working list in either shape: one for each URL item
\* with parameter lines, its url the item's own text
RECURSIVE ShapeRecords(_, _)
ShapeRecords(kids, n) ==
  IF n = 0 THEN <<>>
  ELSE LET urls == ShapeRecords(kids, n - 1)
           own == IF kids[n].name = "li" /\ first_string(kids[n]) # None
                  THEN Strip(first_string(kids[n])[1]) ELSE <<>>
       IN IF StartsWith(own, HTTP) /\ ItemLines(kids, n) # <<>>
          THEN Append(urls, [url |-> own, parameters |-> ItemLines(kids, n)])
          ELSE urls

\* the document is the heading followed by one list in one of the two shapes
OneShape ==
  /\ in_doc.body
  /\ Len(in_doc.nodes) = 2
  /\ in_doc.nodes[1] = H2(DYNAMIC_URLS)
  /\ in_doc.nodes[2] \in {ListSiblings, ListChildren}

\* C15: for a working list in either shape, parameter lists as following
\* siblings or as children of the URL items, a parser returns one record for
\* each URL item with parameters: its url is the item's own text and its
\* parameters are the lines of the item's list in document order
C15_BothShapes ==
  IsParse(out) /\ OneShape =>
    /\ out[1].result.raised = ""
    /\ out[1].result.value =
         ShapeRecords(in_doc.nodes[2].kids, Len(in_doc.nodes[2].kids))

(* --------------------- claims on parameter lines ---------------------- *)

IsLine(o) == o # None /\ o[1].op = "parse_and_process"

\* p is the text cut at its first '=': nothing before the cut is an '=', the
\* key is the trimmed left side and the value all of the trimmed right side
CutAtFirst(text, p) ==
  \E i \in 1..Len(text) :
    /\ text[i] = "="
    /\ \A j \in 1..(i - 1) : text[j] # "="
    /\ p.key = Strip(SubSeq(text, 1, i - 1))
    /\ p.value = Strip(SubSeq(text, i + 1, Len(text)))

\* the parameter of a non-blank line
LineParameter(text, p) ==
  IF \E i \in 1..Len(text) : text[i] = "="
  THEN CutAtFirst(text, p)
  ELSE p = [key |-> text, value |-> <<>>]

\* the instances of a key with an empty value
BlankInstances(urls, k) ==
  LET inst == Instances(urls)
  IN {i \in 1..Len(inst) : inst[i].param.key = k /\ inst[i].param.value = <<>>}

\* the entry of a key lists its empty-valued instances under '(empty)'
BlanksUnderSentinel(urls, index, k) ==
  LET values == DictGet(index.params, k).values
      blanks == BlankInstances(urls, k)
  IN /\ DictHas(values, EMPTY_SENTINEL) <=> blanks # {}
     /\ blanks # {} => Len(DictGet(values, EMPTY_SENTINEL)) = Cardinality(blanks)

\* C16: a parameter line is cut at its first '=' only, into the trimmed key
\* and the trimmed value; without '=' or with a blank right side the value
\* is empty; both aggregators list every empty-valued instance under
\* '(empty)', and the priority one sets has_empty_values exactly for the
\* keys with an empty-valued instance
C16_LinesAndSentinel ==
  IsLine(out) =>
    LET text == Strip(in_text)
        r == out[1].result
        fixed == [key |-> S_a, value |-> S_1]
    IN /\ Len(r.urls) = 1
       /\ LET ps == r.urls[1].parameters
          IN IF text = <<>> THEN ps = <<fixed>>
             ELSE Len(ps) = 2 /\ ps[2] = fixed /\ LineParameter(text, ps[1])
       /\ \A k \in all_params(r.urls) :
            /\ BlanksUnderSentinel(r.urls, r.simple, k)
            /\ BlanksUnderSentinel(r.urls, r.priority, k)
            /\ DictGet(r.priority.params, k).has_empty_values
                 <=> BlankInstances(r.urls, k) # {}

\* a line with a blank right side for a key that another line gives a value
C16_Witness ==
  /\ IsLine(out)
  /\ in_text = <<"a", "=", " ">>
  /\ out[1].result.urls[1].parameters[1] = [key |-> S_a, value |-> <<>>]
  /\ DictGet(out[1].result.priority.params, S_a).has_empty_values
  /\ DictKeys(DictGet(out[1].result.priority.params, S_a).values)
       = <<EMPTY_SENTINEL, S_1>>

(* ------------------------ claims on the classifier -------------------- *)

IsTags(o) == o # None /\ o[1].op = "get_auto_tags"

\* the order of the tags in the table
TagOrder ==
  << "File Upload", "IDOR", "XSS", "SQLi", "Auth", "Redirect",
     "Path Traversal", "Admin", "Debug" >>

TagPosition(tag) == CHOOSE i \in 1..Len(TagOrder) : TagOrder[i] = tag

\* C17: get_auto_tags returns a tag exactly when one of its patterns is a
\* substring of the lower-cased name; the tags come in the order of the
\* table, none twice; a name in another letter case has the same tags
C17_TagsByPattern ==
  IsTags(out) =>
    LET tags == out[1].result
        lower_name == Lower(in_text)
    IN /\ \A i \in 1..Len(AUTO_TAG_PATTERNS) :
            /\ AUTO_TAG_PATTERNS[i].tag = TagOrder[i]
            /\ (\E j \in 1..Len(tags) : tags[j] = TagOrder[i])
                 <=> \E p \in SeqToSet(AUTO_TAG_PATTERNS[i].patterns) :
                       IsSubstring(p, lower_name)
       /\ \A j \in 1..Len(tags) : tags[j] \in SeqToSet(TagOrder)
       /\ \A j, k \in 1..Len(tags) :
            j < k => TagPosition(tags[j]) < TagPosition(tags[k])
       /\ tags = get_auto_tags(lower_name)

\* a name in mixed case that two patterns of IDOR ('id', 'uid') and a
\* pattern of SQLi match
C17_Witness ==
  /\ IsTags(out)
  /\ in_text = <<"u", "I", "d">>
  /\ out[1].result = <<"IDOR", "SQLi">>

(* ------------------- claims on document structure -------------------- *)

\* the index of no records
NoRecordsIndex ==
  [params |-> <<>>, all_param_names |-> <<>>, total_urls |-> 0, total_params |-> 0]

\* C18: on every document, with or without a body element, a heading, a
\* list or URL items, every parser variant returns a sequence and raises no
\* error; process_urls of the empty sequence is the index with no params,
\* no names and zero counts
C18_ParsingNeverRaises ==
  /\ IsParse(out) =>
       /\ out[1].result.raised = ""
       /\ \A i \in 1..Len(out[1].result.value) :
            DOMAIN out[1].result.value[i] = {"url", "parameters"}
  /\ process_urls(<<>>, <<>>) = NoRecordsIndex
  /\ process_urls_priority(<<>>, <<>>) = NoRecordsIndex

(* -------------------------- claims on the store ----------------------- *)

UploadSucceeded(r) == r # None /\ r[1].op = "upload" /\ r[1].status = 200

\* C19: a request that is not a successful upload, a rejected or failed
\* upload (no file part, empty filename, undecodable bytes, failure or
\* timeout of the extraction, an exception) or a query, leaves the held
\* URL records and the held index unchanged
C19_FailuresAndQueriesKeepStore ==
  [][~UploadSucceeded(response') => app_data' = app_data]_vars

\* a dataset was loaded, and the upload after it failed on the timeout of
\* the extraction
C19_Witness ==
  /\ loads # <<>>
  /\ app_data.urls # <<>>
  /\ response # None
  /\ response[1].op = "upload"
  /\ response[1].error = "Extraction timed out"

====
